---- MODULE Spec2Model ----
(***************************************************************************)
(* Award-Wizard: the Streamlit script streamlit_app.py, one script run.    *)
(* Text is modelled as a sequence of one-character strings, so that        *)
(* stripping, lower-casing, digit extraction and the size regexes are      *)
(* computed character by character as the Python code computes them.       *)
(* A DataFrame is a sequence of rows; a row of a canonical frame is a      *)
(* record that keeps its pandas index.                                     *)
(***************************************************************************)
EXTENDS Integers, Sequences, FiniteSets, TLC

VARIABLES
    pc,                 \* position of the script run
    role,               \* st.radio value: "IC" or "QA"
    df_raw,             \* the uploaded table, or NoFile
    auto_picked,        \* normalize_ic: the three picks of _auto_pick_column
    mapping_requested,  \* normalize_ic: _make_manual_mapping_ui was called
    picked,             \* normalize_ic: the three picks after the manual mapping
    append_size,        \* QA: the "Append Size to description" checkbox
    canonical_df,       \* what moves on to validation
    awarding_df,        \* QA: first result of normalize_qa_and_split
    audience_df,        \* QA: second result
    summary,            \* QA: third result
    description_input,  \* the text typed into the keyword box
    UNCLEAR_TERMS,      \* result of build_unclear_terms
    validate_df,        \* canonical rows with the three derived columns
    flagged_df          \* the rows of validate_df that carry a flag

vars == <<pc, role, df_raw, auto_picked, mapping_requested, picked, append_size,
          canonical_df, awarding_df, audience_df, summary, description_input,
          UNCLEAR_TERMS, validate_df, flagged_df>>

(***************************************************************************)
(* Characters and strings                                                  *)
(***************************************************************************)
UpperLetters == <<"A","B","C","D","E","F","G","H","I","J","K","L","M","N","O","P","Q","R","S","T","U","V","W","X","Y","Z">>
LowerLetters == <<"a","b","c","d","e","f","g","h","i","j","k","l","m","n","o","p","q","r","s","t","u","v","w","x","y","z">>
Digits == {"0", "1", "2", "3", "4", "5", "6", "7", "8", "9"}
Whitespace == {" ", "\t"}

Range(s) == {s[i] : i \in DOMAIN s}

IsDigit(c) == c \in Digits
IsSpace(c) == c \in Whitespace
\* a character of the regex class \w
WordChars == Digits \cup Range(UpperLetters) \cup Range(LowerLetters) \cup {"_"}
IsWord(c) == c \in WordChars

\* the lower-case letter of each upper-case letter
LowerOf ==
    [c \in Range(UpperLetters) |->
        LowerLetters[CHOOSE i \in DOMAIN UpperLetters : UpperLetters[i] = c]]

LowerChar(c) == IF c \in DOMAIN LowerOf THEN LowerOf[c] ELSE c

\* str.lower(); str.casefold() agrees with it on the characters modelled
RECURSIVE lower(_)
lower(s) == IF s = <<>> THEN <<>> ELSE <<LowerChar(Head(s))>> \o lower(Tail(s))

RECURSIVE lstrip(_)
lstrip(s) == IF s # <<>> /\ IsSpace(Head(s)) THEN lstrip(Tail(s)) ELSE s

RECURSIVE rstrip(_)
rstrip(s) ==
    IF s # <<>> /\ IsSpace(s[Len(s)]) THEN rstrip(SubSeq(s, 1, Len(s) - 1)) ELSE s

\* str.strip()
strip(s) == rstrip(lstrip(s))

\* Python's  sub in s
Contains(sub, s) ==
    \E i \in 0..(Len(s) - Len(sub)) : SubSeq(s, i + 1, i + Len(sub)) = sub

\* s[-n:]
Last(s, n) == IF Len(s) <= n THEN s ELSE SubSeq(s, Len(s) - n + 1, Len(s))

\* a missing cell, as read_excel(dtype=str) yields it
NaN == <<"NaN">>
\* Series.astype(str) on one cell
astype_str(cell) == IF cell = NaN THEN <<"n","a","n">> ELSE cell

\* Python's None where a column name is expected (falsy, like the empty string)
None == <<>>
\* Python's None in a flag column
NoFlag == "None"
NoFile == [columns |-> <<>>, rows |-> <<>>, file |-> FALSE]

(***************************************************************************)
(* Program constants                                                       *)
(***************************************************************************)
DEFAULT_UNCLEAR_TERMS ==
    << <<"i","t","e","m">>, <<"s","a","m","p","l","e">>, <<"u","n","k","n","o","w","n">>, <<"m","i","s","c">>, <<"p","r","o","d","u","c","t">>, <<"v","a","r","i","e","t","y">>, <<"g","e","n","e","r","i","c">> >>

ALIAS_BARCODE ==
    { <<"b","a","r","c","o","d","e">>, <<"b","a","r","_","c","o","d","e">>, <<"u","p","c">>, <<"u","p","c","1","2">>, <<"u","p","c","-","1","2">>, <<"u","p","c","_","a">>, <<"u","p","c","-","a">>,
      <<"g","t","i","n">>, <<"g","t","i","n","1","2">>, <<"g","t","i","n","-","1","2">>, <<"e","a","n">>, <<"e","a","n","1","3">>, <<"b","a","r","c","o","d","e","_","n","u","m">>,
      <<"b","a","r","c","o","d","e"," ","n","u","m","b","e","r">> }
ALIAS_BRAND == { <<"b","r","a","n","d">>, <<"b","r","a","n","d","_","n","a","m","e">>, <<"b","r","a","n","d"," ","n","a","m","e">>, <<"m","f","r","b","r","a","n","d">>, <<"m","f","r","_","b","r","a","n","d">> }
ALIAS_DESCRIPTION ==
    { <<"d","e","s","c","r","i","p","t","i","o","n">>, <<"d","e","s","c">>, <<"p","r","o","d","u","c","t">>, <<"p","r","o","d","u","c","t","_","n","a","m","e">>, <<"p","r","o","d","u","c","t"," ","n","a","m","e">>,
      <<"p","r","o","d","u","c","t","_","d","e","s","c","r","i","p","t","i","o","n">>, <<"p","r","o","d","u","c","t"," ","d","e","s","c","r","i","p","t","i","o","n">>, <<"i","t","e","m","_","d","e","s","c","r","i","p","t","i","o","n">>,
      <<"i","t","e","m"," ","d","e","s","c","r","i","p","t","i","o","n">>, <<"i","t","e","m"," ","n","a","m","e">>, <<"t","i","t","l","e">> }

(***************************************************************************)
(* Column handling                                                         *)
(***************************************************************************)
\* _normalize_cols: the normalized column names, in column order
RECURSIVE _normalize_cols(_)
_normalize_cols(columns) ==
    IF columns = <<>> THEN <<>>
    ELSE <<strip(lower(strip(Head(columns))))>> \o _normalize_cols(Tail(columns))

\* a loop that keeps overwriting its result: the last match instead of the first
_auto_pick_last(norm_cols, alias_set) ==
    IF \E i \in DOMAIN norm_cols : norm_cols[i] \in alias_set
    THEN norm_cols[CHOOSE i \in DOMAIN norm_cols :
                      /\ norm_cols[i] \in alias_set
                      /\ \A j \in (i + 1)..Len(norm_cols) : norm_cols[j] \notin alias_set]
    ELSE None

RECURSIVE _auto_pick_column(_, _)
_auto_pick_column(norm_cols, alias_set) ==
    IF norm_cols = <<>> THEN None
    ELSE IF Head(norm_cols) \in alias_set THEN Head(norm_cols)
    ELSE _auto_pick_column(Tail(norm_cols), alias_set)

\* the positions of the columns named c
ColumnsNamed(norm_cols, c) == {i \in DOMAIN norm_cols : norm_cols[i] = c}

\* df[c] is a Series only when exactly one column carries the name; with two it is
\* a DataFrame, which has no .str accessor: the script run ends in AttributeError
IsSeries(norm_cols, c) == Cardinality(ColumnsNamed(norm_cols, c)) = 1

\* df[c] as the sequence of its cells
Series(df, norm_cols, c) ==
    LET i == CHOOSE k \in ColumnsNamed(norm_cols, c) : TRUE
    IN  [r \in DOMAIN df.rows |-> df.rows[r][i]]

\* DataFrame.empty: no rows or no columns
IsEmptyFrame(df) == df.rows = <<>> \/ df.columns = <<>>

(***************************************************************************)
(* Barcodes                                                                *)
(***************************************************************************)
RECURSIVE TakeDigits(_)
TakeDigits(s) ==
    IF s # <<>> /\ IsDigit(Head(s)) THEN <<Head(s)>> \o TakeDigits(Tail(s)) ELSE <<>>

\* re.search(r"(\d+)"): the first maximal run of digits, <<>> when there is none
RECURSIVE FirstDigitRun(_)
FirstDigitRun(s) ==
    IF s = <<>> THEN <<>>
    ELSE IF IsDigit(Head(s)) THEN TakeDigits(s)
    ELSE FirstDigitRun(Tail(s))

\* _clean_barcode_series on one cell: extract, [-14:], fillna("")
_clean_barcode(cell) == Last(FirstDigitRun(astype_str(cell)), 14)

RECURSIVE Zeros(_)
Zeros(n) == IF n <= 0 THEN <<>> ELSE <<"0">> \o Zeros(n - 1)

\* str.zfill(width): zeros go after a leading sign
zfill(s, width) ==
    IF Len(s) >= width THEN s
    ELSE IF s # <<>> /\ Head(s) \in {"+", "-"}
         THEN <<Head(s)>> \o Zeros(width - Len(s)) \o Tail(s)
         ELSE Zeros(width - Len(s)) \o s

(***************************************************************************)
(* normalize_ic                                                            *)
(***************************************************************************)
\* the three picks after the optional manual mapping; manual = <<bc, br, ds>>
IcNeedsMapping(auto) == auto[1] = None \/ auto[3] = None

IcMissing(final) ==
    (IF final[1] = None THEN <<"barcode">> ELSE <<>>)
        \o (IF final[3] = None THEN <<"description">> ELSE <<>>)

IcBarcode(cell) == Last(zfill(_clean_barcode(cell), 12), 14)

IcAutoPicks(norm_cols) ==
    << _auto_pick_column(norm_cols, ALIAS_BARCODE),
       _auto_pick_column(norm_cols, ALIAS_BRAND),
       _auto_pick_column(norm_cols, ALIAS_DESCRIPTION) >>

normalize_ic(df, manual) ==
    LET norm_cols == _normalize_cols(df.columns)
        auto == IcAutoPicks(norm_cols)
        requested == IcNeedsMapping(auto)
        final == IF requested THEN manual ELSE auto
        hasBrand == final[2] # None /\ ColumnsNamed(norm_cols, final[2]) # {}
        raised == \/ ~IsSeries(norm_cols, final[1])
                  \/ ~IsSeries(norm_cols, final[3])
                  \/ hasBrand /\ ~IsSeries(norm_cols, final[2])
    IN  IF IcMissing(final) # <<>>
        THEN [status |-> "missing", auto |-> auto, requested |-> requested, picked |-> final,
              out |-> <<>>]
        ELSE IF raised
        THEN [status |-> "raised", auto |-> auto, requested |-> requested, picked |-> final,
              out |-> <<>>]
        ELSE [status |-> "ok", auto |-> auto, requested |-> requested, picked |-> final,
              out |-> [r \in DOMAIN df.rows |->
                         [index |-> r - 1,
                          barcode |-> IcBarcode(Series(df, norm_cols, final[1])[r]),
                          brand |-> IF hasBrand
                                    THEN strip(astype_str(Series(df, norm_cols, final[2])[r]))
                                    ELSE <<>>,
                          description |->
                              strip(astype_str(Series(df, norm_cols, final[3])[r]))]]]

(***************************************************************************)
(* normalize_qa_and_split                                                  *)
(***************************************************************************)
QaRequired == << <<"u","p","c">>, <<"d","e","s","c","r","i","p","t","i","o","n">>, <<"r","e","q","u","i","r","e","m","e","n","t","n","a","m","e">> >>

QaMissing(norm_cols) ==
    SelectSeq(QaRequired, LAMBDA c : ColumnsNamed(norm_cols, c) = {})

\* the description with the Size cell appended unless it is blank or already there
QaDescription(d, s) ==
    IF s = <<>> \/ Contains(lower(s), lower(d)) THEN d ELSE d \o <<" ","-"," ">> \o s

\* the mask without .str.strip()
IsAwarding_NoStrip(cell) == lower(astype_str(cell)) = <<"u","n","l","a","b","e","l","e","d"," ","r","e","q","u","i","r","e","m","e","n","t">>

\* the awarding mask of one RequirementName cell
IsAwarding(cell) == lower(strip(astype_str(cell))) = <<"u","n","l","a","b","e","l","e","d"," ","r","e","q","u","i","r","e","m","e","n","t">>

\* work[mask].reset_index(drop=True)
RECURSIVE Reindex(_, _)
Reindex(rows, n) ==
    IF rows = <<>> THEN <<>>
    ELSE <<[Head(rows) EXCEPT !.index = n]>> \o Reindex(Tail(rows), n + 1)

normalize_qa_and_split(df, append_size_to_desc) ==
    LET norm_cols == _normalize_cols(df.columns)
        useSize == append_size_to_desc /\ ColumnsNamed(norm_cols, <<"s","i","z","e">>) # {}
        raised == \/ \E c \in Range(QaRequired) : ~IsSeries(norm_cols, c)
                  \/ useSize /\ ~IsSeries(norm_cols, <<"s","i","z","e">>)
        desc(r) == strip(astype_str(Series(df, norm_cols, <<"d","e","s","c","r","i","p","t","i","o","n">>)[r]))
        work == [r \in DOMAIN df.rows |->
                   [index |-> r - 1,
                    barcode |-> _clean_barcode(Series(df, norm_cols, <<"u","p","c">>)[r]),
                    brand |-> <<>>,
                    description |->
                        IF useSize
                        THEN QaDescription(desc(r),
                                 strip(astype_str(Series(df, norm_cols, <<"s","i","z","e">>)[r])))
                        ELSE desc(r),
                    awarding |-> IsAwarding(Series(df, norm_cols, <<"r","e","q","u","i","r","e","m","e","n","t","n","a","m","e">>)[r])]]
        canon(w) == [index |-> w.index, barcode |-> w.barcode, brand |-> w.brand,
                     description |-> w.description]
        part(b) == LET sel == SelectSeq(work, LAMBDA w : w.awarding = b)
                   IN  Reindex([k \in DOMAIN sel |-> canon(sel[k])], 0)
    IN  IF QaMissing(norm_cols) # <<>>
        THEN [status |-> "missing", awarding |-> <<>>, audience |-> <<>>, summary |-> {}]
        ELSE IF raised
        THEN [status |-> "raised", awarding |-> <<>>, audience |-> <<>>, summary |-> {}]
        ELSE [status |-> "ok", awarding |-> part(TRUE), audience |-> part(FALSE),
              summary |-> { <<"rows_total", Len(work)>>,
                            <<"rows_awarding", Len(part(TRUE))>>,
                            <<"rows_audience", Len(part(FALSE))>> }]

(***************************************************************************)
(* Description and size validation                                         *)
(***************************************************************************)
\* str.split(",")
RECURSIVE split_comma(_)
split_comma(s) ==
    IF \E i \in DOMAIN s : s[i] = ","
    THEN LET i == CHOOSE k \in DOMAIN s : s[k] = "," /\ \A j \in 1..(k - 1) : s[j] # ","
         IN  <<SubSeq(s, 1, i - 1)>> \o split_comma(SubSeq(s, i + 1, Len(s)))
    ELSE <<s>>

\* build_unclear_terms, given the text of the st.text_input
build_unclear_terms(text) ==
    LET parts == IF text = <<>> THEN <<>> ELSE split_comma(text)
        kept == SelectSeq(parts, LAMBDA kw : strip(kw) # <<>>)
    IN  DEFAULT_UNCLEAR_TERMS \o [k \in DOMAIN kept |-> lower(strip(kept[k]))]

MinDescriptionLen == 10

\* the two checks in the other order
flag_description_TermsFirst(desc, ilike_clauses) ==
    IF desc # NaN /\ \E k \in DOMAIN ilike_clauses : Contains(ilike_clauses[k], lower(desc))
    THEN "Unclear or Generic"
    ELSE IF desc = NaN \/ Len(desc) < MinDescriptionLen THEN "Too short"
    ELSE NoFlag

flag_description(desc, ilike_clauses) ==
    IF desc = NaN \/ Len(desc) < MinDescriptionLen THEN "Too short"
    ELSE IF \E k \in DOMAIN ilike_clauses : Contains(ilike_clauses[k], lower(desc))
    THEN "Unclear or Generic"
    ELSE NoFlag

\* the index of the last character of the digit run that starts at i
RECURSIVE DigitRunEnd(_, _)
DigitRunEnd(s, i) ==
    IF i + 1 <= Len(s) /\ IsDigit(s[i + 1]) THEN DigitRunEnd(s, i + 1) ELSE i

\* (\d+(\.\d+)?) anchored at i: the index of the last character of group 1.
\* Greedy, and giving a digit back never lets the rest of either regex match.
NumberEnd(s, i) ==
    LET j == DigitRunEnd(s, i)
    IN  IF j + 2 <= Len(s) /\ s[j + 1] = "." /\ IsDigit(s[j + 2])
        THEN DigitRunEnd(s, j + 2)
        ELSE j

\* \s? after the number: where the unit has to start
UnitStart(s, e) == IF e + 1 <= Len(s) /\ IsSpace(s[e + 1]) THEN e + 2 ELSE e + 1

\* \b after a word character at position p
WordBoundaryAfter(s, p) == p = Len(s) \/ ~IsWord(s[p + 1])

\* r'(\d+(\.\d+)?)\s?m[lL]\b' matches with its first character at i
MatchMlAt(s, i) ==
    /\ IsDigit(s[i])
    /\ LET u == UnitStart(s, NumberEnd(s, i))
       IN  /\ u + 1 <= Len(s)
           /\ s[u] = "m"
           /\ s[u + 1] \in {"l", "L"}
           /\ WordBoundaryAfter(s, u + 1)

\* r'(\d+(\.\d+)?)\s?[lL]\b' matches with its first character at i
MatchLAt(s, i) ==
    /\ IsDigit(s[i])
    /\ LET u == UnitStart(s, NumberEnd(s, i))
       IN  /\ u <= Len(s)
           /\ s[u] \in {"l", "L"}
           /\ WordBoundaryAfter(s, u)

DigitValues ==
    [c \in Digits |-> CHOOSE v \in 0..9 : <<"0", "1", "2", "3", "4", "5", "6", "7", "8", "9">>[v + 1] = c]
DigitValue(c) == DigitValues[c]

RECURSIVE ParseDigits(_)
ParseDigits(ds) ==
    IF ds = <<>> THEN 0
    ELSE 10 * ParseDigits(SubSeq(ds, 1, Len(ds) - 1)) + DigitValue(ds[Len(ds)])

RECURSIVE Pow10(_)
Pow10(n) == IF n = 0 THEN 1 ELSE 10 * Pow10(n - 1)

\* float(text) for text of the shape \d+(\.\d+)? , as the exact fraction num/den
ParseFloat(text) ==
    LET digits == SelectSeq(text, IsDigit)
        dot == IF \E i \in DOMAIN text : text[i] = "."
               THEN CHOOSE i \in DOMAIN text : text[i] = "."
               ELSE Len(text)
    IN  [tag |-> "float", num |-> ParseDigits(digits), den |-> Pow10(Len(text) - dot)]

PyNone == [tag |-> "None", num |-> 0, den |-> 1]
PyNaN == [tag |-> "NaN", num |-> 0, den |-> 1]

\* re.search from position i on: the leftmost position at which the regex
\* matches, 0 when none does
RECURSIVE SearchMl(_, _)
SearchMl(s, i) ==
    IF i > Len(s) THEN 0 ELSE IF MatchMlAt(s, i) THEN i ELSE SearchMl(s, i + 1)

RECURSIVE SearchL(_, _)
SearchL(s, i) ==
    IF i > Len(s) THEN 0 ELSE IF MatchLAt(s, i) THEN i ELSE SearchL(s, i + 1)

extract_size_ml(desc) ==
    IF desc = NaN THEN PyNone
    ELSE LET match_ml == SearchMl(desc, 1)
             match_l == SearchL(desc, 1)
         IN  IF match_ml # 0
             THEN ParseFloat(SubSeq(desc, match_ml, NumberEnd(desc, match_ml)))
             ELSE IF match_l # 0
             THEN LET f == ParseFloat(SubSeq(desc, match_l, NumberEnd(desc, match_l)))
                  IN  [f EXCEPT !.num = f.num * 1000]
             ELSE PyNone

MinSizeMl == 750

\* NaN is not None, and NaN < 750 is False
flag_size(size_ml) ==
    IF size_ml.tag = "None" THEN "No size found"
    ELSE IF size_ml.tag = "float" /\ size_ml.num < MinSizeMl * size_ml.den THEN "Too small"
    ELSE NoFlag

\* Series.apply(extract_size_ml): pandas infers the dtype of the results, and a
\* column holding both floats and None becomes float64 with None turned into NaN;
\* a column of None alone stays an object column of None
RECURSIVE map_extract_size_ml(_)
map_extract_size_ml(descs) ==
    IF descs = <<>> THEN <<>>
    ELSE <<extract_size_ml(Head(descs))>> \o map_extract_size_ml(Tail(descs))

apply_extract_size_ml(descs) ==
    LET raw == map_extract_size_ml(descs)
        anyFloat == \E k \in DOMAIN raw : raw[k].tag = "float"
    IN  [k \in DOMAIN raw |-> IF anyFloat /\ raw[k].tag = "None" THEN PyNaN ELSE raw[k]]

\* validate_df["barcode"]: .str.replace(r"\D", "").str[-14:]
DisplayBarcode(b) == Last(SelectSeq(b, IsDigit), 14)

\* a mask that forgets the size flag
IsFlagged_DescriptionOnly(row) == row.description_flag # NoFlag

\* the mask of flagged_df
IsFlagged(row) == row.description_flag # NoFlag \/ row.size_flag # NoFlag

\* sorted, non-blank, distinct brands of the canonical frame
BrandOptions(df) == {df[k].brand : k \in DOMAIN df} \ {<<>>}

ALL_BRANDS == <<"(","A","l","l"," ","b","r","a","n","d","s",")">>

\* the validation section, given the brand selectbox value
ValidateFrame(df, selected_brand, terms) ==
    LET kept == IF BrandOptions(df) # {} /\ selected_brand # ALL_BRANDS
                THEN SelectSeq(df, LAMBDA row : row.brand = selected_brand)
                ELSE df
        sizes == apply_extract_size_ml([k \in DOMAIN kept |-> kept[k].description])
    IN  [k \in DOMAIN kept |->
           [index |-> kept[k].index,
            barcode |-> DisplayBarcode(kept[k].barcode),
            brand |-> kept[k].brand,
            description |-> kept[k].description,
            description_flag |-> flag_description(kept[k].description, terms),
            parsed_size_ml |-> sizes[k],
            size_flag |-> flag_size(sizes[k])]]

(***************************************************************************)
(* Uploads: the bounded families of files the script run is given          *)
(***************************************************************************)
MaxCols == 3      \* columns of an upload of the header family
MaxDigits == 16   \* digits in the digit run of a barcode token
MaxRows == 3      \* rows of an upload of the row families
MaxWords == 3     \* words of a description of the text family

Roles == {"IC", "QA"}

File(columns, rows) == [columns |-> columns, rows |-> rows, file |-> TRUE]

\* --- header family: distinct raw headers in any order, one row ---
HeaderPool ==
    { <<"U","P","C">>, <<"u","p","c"," ">>, <<"B","r","a","n","d"," ","N","a","m","e">>, <<"P","r","o","d","u","c","t"," ","D","e","s","c","r","i","p","t","i","o","n">>, <<"R","e","q","u","i","r","e","m","e","n","t","N","a","m","e">>,
      <<" ","D","e","s","c","r","i","p","t","i","o","n">> }

CellFor(h) ==
    CASE h = <<"U","P","C">> -> <<"0","1","2","3","4","5","6","7","8","9","0","5">>
      [] h = <<"u","p","c"," ">> -> <<"4","0","0","6","3","8","1","3","3","3","9","3","1">>
      [] h = <<"B","r","a","n","d"," ","N","a","m","e">> -> <<"A","c","m","e">>
      [] h = <<"P","r","o","d","u","c","t"," ","D","e","s","c","r","i","p","t","i","o","n">> -> <<"R","e","d"," ","w","i","n","e"," ","7","5","0"," ","m","l"," ","b","o","t","t","l","e">>
      [] h = <<" ","D","e","s","c","r","i","p","t","i","o","n">> -> <<"C","h","a","r","d","o","n","n","a","y"," ","1",".","5"," ","L">>
      [] OTHER -> <<"U","n","l","a","b","e","l","e","d"," ","R","e","q","u","i","r","e","m","e","n","t">>

HeaderLists ==
    UNION { { hs \in [1..n -> HeaderPool] : \A i, j \in 1..n : i # j => hs[i] # hs[j] }
            : n \in 1..MaxCols }

HeaderFiles == { File(hs, << [i \in DOMAIN hs |-> CellFor(hs[i])] >>) : hs \in HeaderLists }

\* --- barcode family: one row whose barcode cell is prefix, digit run, suffix ---
RECURSIVE DigitRun(_, _)
DigitRun(first, n) ==
    IF n = 0 THEN <<>>
    ELSE << <<"0", "1", "2", "3", "4", "5", "6", "7", "8", "9">>[(first % 10) + 1] >>
             \o DigitRun(first + 1, n - 1)

BarcodeTokens ==
    { pre \o DigitRun(first, n) \o post :
        pre \in { <<>>, <<"S","K","U","-">>, <<" ">> },
        first \in {0, 1},
        n \in 0..MaxDigits,
        post \in { <<>>, <<"-","1","2">>, <<"x"," ">> } } \cup {NaN}

BarcodeFiles(r) ==
    IF r = "IC"
    THEN { File(<< <<"U","P","C">>, <<"D","e","s","c","r","i","p","t","i","o","n">> >>, << <<t, <<"R","e","d"," ","w","i","n","e"," ","7","5","0"," ","m","l"," ","b","o","t","t","l","e">>>> >>)
           : t \in BarcodeTokens }
    ELSE { File(<< <<"U","P","C">>, <<"D","e","s","c","r","i","p","t","i","o","n">>, <<"R","e","q","u","i","r","e","m","e","n","t","N","a","m","e">> >>,
                << <<t, <<"R","e","d"," ","w","i","n","e"," ","7","5","0"," ","m","l"," ","b","o","t","t","l","e">>, <<"U","n","l","a","b","e","l","e","d"," ","R","e","q","u","i","r","e","m","e","n","t">>>> >>)
           : t \in BarcodeTokens }

\* --- row families: up to MaxRows rows drawn from a pool ---
IcRowPool ==
    { << <<"0","1","2","3","4","5","6","7","8","9","0","5">>, <<"A","c","m","e">>, <<"R","e","d"," ","w","i","n","e"," ","7","5","0"," ","m","l"," ","b","o","t","t","l","e">> >>,
      << <<"0","1","2","3","4","5","6","7","8","9","0","5">>, <<"A","c","m","e"," ">>, <<"R","e","d"," ","w","i","n","e"," ","b","o","t","t","l","e"," ","l","a","r","g","e">> >>,
      << <<>>, <<"Z","e","d">>, <<"Z","e","d"," ","c","o","l","a"," ","5","0","0"," ","m","l">> >>,
      << <<"4","0","0","6","3","8","1","3","3","3","9","3","1">>, <<>>, <<" ","i","t","e","m"," ">> >> }

QaRowPool ==
    { << <<"0","1","2","3","4","5","6","7","8","9","0","5">>, <<"R","e","d"," ","w","i","n","e"," ","b","o","t","t","l","e">>, <<"U","n","l","a","b","e","l","e","d"," ","R","e","q","u","i","r","e","m","e","n","t">>, <<"7","5","0"," ","m","l">> >>,
      << <<"1","2","3","4","5">>, <<"W","h","i","t","e"," ","w","i","n","e"," ","1",".","5"," ","L">>, <<" ","U","N","L","A","B","E","L","E","D"," ","r","e","q","u","i","r","e","m","e","n","t"," ">>, <<"1",".","5"," ","l">> >>,
      << <<"0","1","2","3","4","5","6","7","8","9","0","5">>, <<"S","p","a","r","k","l","i","n","g"," ","w","a","t","e","r">>, <<"U","n","l","a","b","e","l","e","d"," ","R","e","q","u","i","r","e","m","e","n","t","s">>, <<>> >>,
      << <<>>, <<"G","e","n","e","r","i","c"," ","p","r","o","d","u","c","t">>, <<>>, NaN >>,
      << <<"9","9","9">>, <<"R","o","s","e"," ","w","i","n","e"," ","7","0"," ","c","l">>, NaN, <<"0",".","7"," ","L">> >> }

RowLists(pool) == UNION { [1..n -> pool] : n \in 0..MaxRows }

\* five rows, two of them with the same barcode and one with a blank barcode
ScenarioFile ==
    File(<< <<"B","a","r","c","o","d","e">>, <<"B","r","a","n","d">>, <<"D","e","s","c","r","i","p","t","i","o","n">> >>,
         << << <<"0","1","2","3","4","5","6","7","8","9","0","5">>, <<"A","c","m","e">>, <<"R","e","d"," ","w","i","n","e"," ","7","5","0"," ","m","l"," ","b","o","t","t","l","e">> >>,
            << <<"0","1","2","3","4","5","6","7","8","9","0","5">>, <<"A","c","m","e">>, <<"R","e","d"," ","w","i","n","e"," ","7","5","0"," ","m","l"," ","b","o","t","t","l","e">> >>,
            << <<"4","0","0","6","3","8","1","3","3","3","9","3","1">>, <<"Z","e","d">>, <<"W","h","i","t","e"," ","w","i","n","e"," ","1",".","5"," ","L">> >>,
            << <<>>, <<"Z","e","d">>, <<"R","o","s","e"," ","w","i","n","e"," ","7","5","0"," ","m","l">> >>,
            << <<"0","3","6","0","0","0","2","9","1","4","5","2">>, <<"A","c","m","e">>, <<"S","p","a","r","k","l","i","n","g"," ","w","i","n","e"," ","7","5","0"," ","m","l">> >> >>)

RowFiles(r) ==
    IF r = "IC"
    THEN { File(<< <<"B","a","r","c","o","d","e">>, <<"B","r","a","n","d">>, <<"D","e","s","c","r","i","p","t","i","o","n">> >>, rows) : rows \in RowLists(IcRowPool) }
             \cup {ScenarioFile}
    ELSE { File(<< <<"U","P","C">>, <<"D","e","s","c","r","i","p","t","i","o","n">>, <<"R","e","q","u","i","r","e","m","e","n","t","N","a","m","e">>, <<"S","i","z","e">> >>, rows)
           : rows \in RowLists(QaRowPool) }

\* --- description families: one row, the description varied ---
SizeDescriptions ==
    { pre \o num \o sep \o unit \o post :
        pre \in { <<>>, <<"W","i","n","e"," ">> },
        num \in { <<"7","5","0">>, <<"1",".","5">>, <<"0",".","7","5">>, <<"7","4","9">>, <<>> },
        sep \in { <<>>, <<" ">>, <<" "," ">> },
        unit \in { <<"m","l">>, <<"m","L">>, <<"M","L">>, <<"M","l">>, <<"l">>, <<"L">>, <<"l","b">>, <<>> },
        post \in { <<>>, <<"s">>, <<" ","2"," ","L">>, <<" ","5","0"," ","m","l">> } }

WordPool == { <<"i","t","e","m">>, <<"S","a","m","p","l","e">>, <<"w","i","n","e">>, <<"b","o","t","t","l","e">>, <<"x">> }

RECURSIVE JoinWords(_)
JoinWords(ws) ==
    IF ws = <<>> THEN <<>>
    ELSE IF Len(ws) = 1 THEN ws[1]
    ELSE ws[1] \o <<" ">> \o JoinWords(Tail(ws))

TextDescriptions == { JoinWords(ws) : ws \in UNION { [1..n -> WordPool] : n \in 1..MaxWords } }

DescriptionFiles ==
    { File(<< <<"U","P","C">>, <<"D","e","s","c","r","i","p","t","i","o","n">> >>, << << <<"0","1","2","3","4","5","6","7","8","9","0","5">>, d >> >>)
      : d \in SizeDescriptions \cup TextDescriptions }

Uploads(r) ==
    HeaderFiles \cup BarcodeFiles(r) \cup RowFiles(r)
        \cup (IF r = "IC" THEN DescriptionFiles ELSE {})

\* what the user may type into the keyword box
TermInputs == { <<>>, <<" ","W","i","n","e"," ",","," ",",","R","E","D">>, <<"b","o","t","t","l","e",",">> }

(***************************************************************************)
(* The script run                                                          *)
(***************************************************************************)
Init ==
    /\ pc = "start"
    /\ role = "IC"
    /\ df_raw = NoFile
    /\ auto_picked = <<None, None, None>>
    /\ mapping_requested = FALSE
    /\ picked = <<None, None, None>>
    /\ append_size = TRUE
    /\ canonical_df = <<>>
    /\ awarding_df = <<>>
    /\ audience_df = <<>>
    /\ summary = {}
    /\ description_input = <<>>
    /\ UNCLEAR_TERMS = <<>>
    /\ validate_df = <<>>
    /\ flagged_df = <<>>

\* the role radio and the file uploader
Upload ==
    /\ pc = "start"
    /\ \E r \in Roles : \E f \in Uploads(r) \cup {NoFile} :
          /\ role' = r
          /\ df_raw' = f
    /\ pc' = "main"
    /\ UNCHANGED <<auto_picked, mapping_requested, picked, append_size, canonical_df,
                   awarding_df, audience_df, summary, description_input, UNCLEAR_TERMS,
                   validate_df, flagged_df>>

\* uploaded_file is None: the main flow is skipped
NoUpload ==
    /\ pc = "main"
    /\ ~df_raw.file
    /\ pc' = "validation"
    /\ UNCHANGED <<role, df_raw, auto_picked, mapping_requested, picked, append_size,
                   canonical_df, awarding_df, audience_df, summary, description_input,
                   UNCLEAR_TERMS, validate_df, flagged_df>>

\* df_raw.empty: st.error, nothing is normalized
EmptyUpload ==
    /\ pc = "main"
    /\ df_raw.file
    /\ IsEmptyFrame(df_raw)
    /\ pc' = "validation"
    /\ UNCHANGED <<role, df_raw, auto_picked, mapping_requested, picked, append_size,
                   canonical_df, awarding_df, audience_df, summary, description_input,
                   UNCLEAR_TERMS, validate_df, flagged_df>>

\* the values the three mapping selectboxes can hold; the boxes exist only when
\* the automatic picks left barcode or description open
MappingChoices(df) ==
    LET norm_cols == _normalize_cols(df.columns)
    IN  IF IcNeedsMapping(IcAutoPicks(norm_cols))
        THEN Range(norm_cols) \cup {None}
        ELSE {None}

\* IC mode: canonical_df = normalize_ic(df_raw); an exception ends the script run
RunIC ==
    /\ pc = "main"
    /\ df_raw.file
    /\ ~IsEmptyFrame(df_raw)
    /\ role = "IC"
    /\ \E bc_sel, br_sel, ds_sel \in MappingChoices(df_raw) :
        \E res \in {normalize_ic(df_raw, <<bc_sel, br_sel, ds_sel>>)} :
              /\ auto_picked' = res.auto
              /\ mapping_requested' = res.requested
              /\ picked' = res.picked
              /\ canonical_df' = res.out
              /\ pc' = IF res.status = "raised" THEN "crashed" ELSE "validation"
    /\ UNCHANGED <<role, df_raw, append_size, awarding_df, audience_df, summary,
                   description_input, UNCLEAR_TERMS, validate_df, flagged_df>>

\* QA mode: split, and only a non-empty awarding frame moves on to validation
RunQA ==
    /\ pc = "main"
    /\ df_raw.file
    /\ ~IsEmptyFrame(df_raw)
    /\ role = "QA"
    /\ \E checkbox \in BOOLEAN :
        \E res \in {normalize_qa_and_split(df_raw, checkbox)} :
              /\ append_size' = checkbox
              /\ awarding_df' = res.awarding
              /\ audience_df' = res.audience
              /\ summary' = res.summary
              /\ canonical_df' = IF res.awarding # <<>> THEN res.awarding ELSE canonical_df
              /\ pc' = IF res.status = "raised" THEN "crashed" ELSE "validation"
    /\ UNCHANGED <<role, df_raw, auto_picked, mapping_requested, picked,
                   description_input, UNCLEAR_TERMS, validate_df, flagged_df>>

\* the validation section without its guard
ShouldValidate_Always(df) == TRUE

\* line 269: if not canonical_df.empty
ShouldValidate(df) == df # <<>>

\* the validation section: flags every row and filters the flagged ones
Validation ==
    /\ pc = "validation"
    /\ ShouldValidate(canonical_df)
    /\ \E text \in TermInputs :
       \E selected_brand \in BrandOptions(canonical_df) \cup {ALL_BRANDS} :
          /\ description_input' = text
          /\ UNCLEAR_TERMS' = build_unclear_terms(text)
          /\ validate_df' = ValidateFrame(canonical_df, selected_brand, UNCLEAR_TERMS')
          /\ flagged_df' = SelectSeq(validate_df', IsFlagged)
    /\ pc' = "validated"
    /\ UNCHANGED <<role, df_raw, auto_picked, mapping_requested, picked, append_size,
                   canonical_df, awarding_df, audience_df, summary>>

\* the else branch: "Upload a file above to begin."
NoValidation ==
    /\ pc = "validation"
    /\ ~ShouldValidate(canonical_df)
    /\ \E text \in TermInputs :
          /\ description_input' = text
          /\ UNCLEAR_TERMS' = build_unclear_terms(text)
    /\ pc' = "idle"
    /\ UNCHANGED <<role, df_raw, auto_picked, mapping_requested, picked, append_size,
                   canonical_df, awarding_df, audience_df, summary, validate_df,
                   flagged_df>>

Next == Upload \/ NoUpload \/ EmptyUpload \/ RunIC \/ RunQA \/ Validation \/ NoValidation

Spec == Init /\ [][Next]_vars

(***************************************************************************)
(* Reading a state in the properties                                       *)
(***************************************************************************)
AfterMain == pc \in {"validation", "validated", "idle"}

NormCols == _normalize_cols(df_raw.columns)
RowIds == DOMAIN df_raw.rows
\* the cell of row r in the column whose normalized name is c, as text
CellText(r, c) == astype_str(Series(df_raw, NormCols, c)[r])

\* normalize_ic returned a frame of records
IcOk ==
    /\ role = "IC" /\ AfterMain /\ df_raw.file /\ ~IsEmptyFrame(df_raw)
    /\ picked[1] # None /\ picked[3] # None

\* normalize_qa_and_split returned its three results for a file with the columns
QaOk == role = "QA" /\ AfterMain /\ summary # {}

HasDigit(s) == \E i \in DOMAIN s : IsDigit(s[i])

\* QA: the record emitted for row r, found by its rank in its partition
QaEmitted(r) ==
    LET aw == IsAwarding(Series(df_raw, NormCols, <<"r","e","q","u","i","r","e","m","e","n","t","n","a","m","e">>)[r])
        rank == Cardinality({q \in 1..r :
                    IsAwarding(Series(df_raw, NormCols, <<"r","e","q","u","i","r","e","m","e","n","t","n","a","m","e">>)[q]) = aw})
    IN  IF aw THEN awarding_df[rank] ELSE audience_df[rank]

\* the first maximal run of digits of a token that has a digit
ClaimedDigitRun(s) ==
    LET i == CHOOSE a \in DOMAIN s : IsDigit(s[a]) /\ \A k \in 1..(a - 1) : ~IsDigit(s[k])
        j == CHOOSE b \in i..Len(s) :
                /\ \A k \in i..b : IsDigit(s[k])
                /\ b = Len(s) \/ ~IsDigit(s[b + 1])
    IN  SubSeq(s, i, j)

Rightmost(s, n) == [k \in 1..(IF Len(s) < n THEN Len(s) ELSE n) |->
                      s[k + (IF Len(s) < n THEN 0 ELSE Len(s) - n)]]

LeftPadZero(s, w) ==
    LET pad == IF Len(s) < w THEN w - Len(s) ELSE 0
    IN  [k \in 1..(pad + Len(s)) |-> IF k <= pad THEN "0" ELSE s[k - pad]]

ClaimedBarcode(token) == LeftPadZero(Rightmost(ClaimedDigitRun(token), 14), 12)

\* the statement of C1 for the records of normalize_ic
C1_IcBarcode ==
    IcOk => \A r \in RowIds :
               HasDigit(CellText(r, picked[1]))
                   => canonical_df[r].barcode = ClaimedBarcode(CellText(r, picked[1]))

\* the statement of C1 for the records of normalize_qa_and_split
C1_QaBarcode ==
    QaOk => \A r \in RowIds :
               HasDigit(CellText(r, <<"u","p","c">>))
                   => /\ QaEmitted(r).barcode = ClaimedBarcode(CellText(r, <<"u","p","c">>))
                      /\ Len(QaEmitted(r).barcode) \in 12..14

(***************************************************************************)
(* C1: for every raw barcode token that contains a digit, the canonical    *)
(* barcode emitted by normalize_ic and by normalize_qa_and_split is the    *)
(* first maximal digit run, cut to its rightmost 14 digits and left-padded *)
(* with zeros to width 12; so it is digits only, of length 12 to 14.       *)
(***************************************************************************)
C1_CanonicalBarcode == C1_IcBarcode /\ C1_QaBarcode

\* the statement of C2 for the records of normalize_ic
C2_IcBlank ==
    IcOk => \A r \in RowIds :
               ~HasDigit(CellText(r, picked[1])) => canonical_df[r].barcode = <<>>

\* the statement of C2 for the records of normalize_qa_and_split
C2_QaBlank ==
    QaOk => \A r \in RowIds :
               ~HasDigit(CellText(r, <<"u","p","c">>)) => QaEmitted(r).barcode = <<>>

(***************************************************************************)
(* C2: for every raw barcode token without a digit (an empty value         *)
(* included) the canonical barcode of the emitted record is the empty      *)
(* string, never a zero-filled one.                                        *)
(***************************************************************************)
C2_BlankStaysEmpty == C2_IcBlank /\ C2_QaBlank

(***************************************************************************)
(* C3: for a campaign file with the required columns, awarding and         *)
(* audience partition the input rows, each in input order, the summary     *)
(* counts add up, and a row is in awarding exactly when its requirement    *)
(* label, trimmed and case-folded, is "unlabeled requirement".             *)
(***************************************************************************)
ClaimedAwarding(cell) ==
    /\ cell # NaN
    /\ \E i, j \in DOMAIN cell :
          /\ \A k \in 1..(i - 1) : IsSpace(cell[k])
          /\ \A k \in (j + 1)..Len(cell) : IsSpace(cell[k])
          /\ lower(SubSeq(cell, i, j)) = <<"u","n","l","a","b","e","l","e","d"," ","r","e","q","u","i","r","e","m","e","n","t">>

RECURSIVE Ascending(_)
Ascending(A) ==
    IF A = {} THEN <<>>
    ELSE LET m == CHOOSE x \in A : \A y \in A : x <= y
         IN  <<m>> \o Ascending(A \ {m})

\* rec is the canonical record of input row r of the campaign file
QaRecordOf(rec, r) ==
    LET d == strip(CellText(r, <<"d","e","s","c","r","i","p","t","i","o","n">>))
    IN  /\ rec.barcode = _clean_barcode(Series(df_raw, NormCols, <<"u","p","c">>)[r])
        /\ rec.brand = <<>>
        /\ rec.description =
              IF append_size /\ ColumnsNamed(NormCols, <<"s","i","z","e">>) # {}
              THEN QaDescription(d, strip(CellText(r, <<"s","i","z","e">>)))
              ELSE d

C3_Split ==
    QaOk =>
        LET inAwarding == {r \in RowIds :
                             ClaimedAwarding(Series(df_raw, NormCols, <<"r","e","q","u","i","r","e","m","e","n","t","n","a","m","e">>)[r])}
            aw == Ascending(inAwarding)
            au == Ascending(RowIds \ inAwarding)
        IN  /\ Len(awarding_df) = Len(aw)
            /\ Len(audience_df) = Len(au)
            /\ \A k \in DOMAIN aw : QaRecordOf(awarding_df[k], aw[k])
            /\ \A k \in DOMAIN au : QaRecordOf(audience_df[k], au[k])
            /\ summary = { <<"rows_total", Len(df_raw.rows)>>,
                           <<"rows_awarding", Len(awarding_df)>>,
                           <<"rows_audience", Len(audience_df)>> }
            /\ Len(awarding_df) + Len(audience_df) = Len(df_raw.rows)

\* both partitions are inhabited, a padded upper-case label is in awarding and a
\* missing label is in audience
C3_Witness ==
    /\ QaOk
    /\ awarding_df # <<>>
    /\ audience_df # <<>>
    /\ \E r \in RowIds :
          Series(df_raw, NormCols, <<"r","e","q","u","i","r","e","m","e","n","t","n","a","m","e">>)[r] = <<" ","U","N","L","A","B","E","L","E","D"," ","r","e","q","u","i","r","e","m","e","n","t"," ">>
    /\ \E r \in RowIds : Series(df_raw, NormCols, <<"r","e","q","u","i","r","e","m","e","n","t","n","a","m","e">>)[r] = NaN
    /\ \E r \in RowIds : Series(df_raw, NormCols, <<"r","e","q","u","i","r","e","m","e","n","t","n","a","m","e">>)[r] = <<>>

(***************************************************************************)
(* C4: every record submitted to validation is in exactly one of flagged   *)
(* and not flagged, in input order, none dropped or duplicated; it is in   *)
(* flagged exactly when its description_flag or its size_flag is not None. *)
(***************************************************************************)
C4_FlaggedPartition ==
    pc = "validated" =>
        /\ \A k \in DOMAIN flagged_df : \E m \in DOMAIN validate_df : flagged_df[k] = validate_df[m]
        /\ \A k, m \in DOMAIN flagged_df : k < m => flagged_df[k].index < flagged_df[m].index
        /\ \A k, m \in DOMAIN validate_df : k < m => validate_df[k].index < validate_df[m].index
        /\ \A m \in DOMAIN validate_df :
              (\E k \in DOMAIN flagged_df : flagged_df[k] = validate_df[m])
                  <=> (validate_df[m].description_flag # NoFlag
                          \/ validate_df[m].size_flag # NoFlag)

\* a flagged row that only its size flags, next to a row that is not flagged
C4_Witness ==
    /\ pc = "validated"
    /\ \E k \in DOMAIN flagged_df :
          flagged_df[k].description_flag = NoFlag /\ flagged_df[k].size_flag # NoFlag
    /\ \E k \in DOMAIN flagged_df : flagged_df[k].description_flag # NoFlag
    /\ Len(flagged_df) < Len(validate_df)

(***************************************************************************)
(* C5: extract_size_ml returns the number of the millilitre expression     *)
(* (number, optional space, "ml" in any letter case) if there is one, else *)
(* 1000 times the number of the litre expression ("l" in any letter case), *)
(* else None; millilitres have priority.                                   *)
(***************************************************************************)
\* the unit read in any letter case
ClaimedSize(desc) == extract_size_ml(lower(desc))

SameSize(a, b) ==
    IF a.tag = "float" /\ b.tag = "float" THEN a.num * b.den = b.num * a.den
    ELSE a.tag # "float" /\ b.tag # "float"

C5_ExtractSize ==
    pc = "validated" =>
        \A k \in DOMAIN validate_df :
            SameSize(validate_df[k].parsed_size_ml, ClaimedSize(validate_df[k].description))

(***************************************************************************)
(* C6: flag_description gives "Too short" to every description shorter     *)
(* than 10 characters, vague term or not; otherwise "Unclear or Generic"   *)
(* exactly when the lower-cased description contains a vague term;         *)
(* otherwise None.  The vague terms of a run are the default terms and the *)
(* user's comma-separated terms, trimmed and lower-cased, blanks ignored.  *)
(***************************************************************************)
\* the comma-free stretches of the text between two commas or ends
Pieces(text) ==
    { SubSeq(text, i, j) : <<i, j>> \in
        { p \in (1..(Len(text) + 1)) \X (0..Len(text)) :
            /\ p[1] <= p[2] + 1
            /\ \A k \in p[1]..p[2] : text[k] # ","
            /\ p[1] = 1 \/ text[p[1] - 1] = ","
            /\ p[2] = Len(text) \/ text[p[2] + 1] = "," } }

ClaimedTerms(text) ==
    Range(DEFAULT_UNCLEAR_TERMS)
        \cup { lower(strip(piece)) : piece \in { q \in Pieces(text) : strip(q) # <<>> } }

ClaimedDescriptionFlag(desc, terms) ==
    IF Len(desc) < 10 THEN "Too short"
    ELSE IF \E t \in terms : \E i \in 0..(Len(desc) - Len(t)) :
                \A k \in 1..Len(t) : LowerChar(desc[i + k]) = t[k]
    THEN "Unclear or Generic"
    ELSE NoFlag

C6_DescriptionFlag ==
    pc = "validated" =>
        /\ Range(UNCLEAR_TERMS) = ClaimedTerms(description_input)
        /\ \A k \in DOMAIN validate_df :
              validate_df[k].description_flag
                  = ClaimedDescriptionFlag(validate_df[k].description,
                                           ClaimedTerms(description_input))

\* in one batch: a short description that holds a default term, and a long one
\* that only a term typed by the user catches
C6_Witness ==
    /\ pc = "validated"
    /\ description_input = <<" ","W","i","n","e"," ",","," ",",","R","E","D">>
    /\ \E k \in DOMAIN validate_df :
          /\ validate_df[k].description_flag = "Too short"
          /\ Contains(<<"i","t","e","m">>, lower(validate_df[k].description))
    /\ \E k \in DOMAIN validate_df :
          /\ validate_df[k].description_flag = "Unclear or Generic"
          /\ ~\E t \in Range(DEFAULT_UNCLEAR_TERMS) :
                 Contains(t, lower(validate_df[k].description))

(***************************************************************************)
(* C7: normalize_ic picks for barcode, brand and description the first     *)
(* header in column order whose trimmed, lower-cased form is in the alias  *)
(* set; manual mapping is requested exactly when barcode or description is *)
(* not resolved; an unresolved brand alone gives every record an empty     *)
(* brand; UPC, Brand Name, Product Description resolve without mapping.    *)
(***************************************************************************)
IcRan == role = "IC" /\ pc \in {"validation", "validated", "idle", "crashed"}
             /\ df_raw.file /\ ~IsEmptyFrame(df_raw)

ClaimedPick(alias_set) ==
    LET hits == {i \in DOMAIN df_raw.columns : NormCols[i] \in alias_set}
    IN  IF hits = {} THEN None
        ELSE NormCols[CHOOSE i \in hits : \A j \in hits : i <= j]

C7_ColumnResolution ==
    IcRan =>
        /\ auto_picked = << ClaimedPick(ALIAS_BARCODE), ClaimedPick(ALIAS_BRAND),
                            ClaimedPick(ALIAS_DESCRIPTION) >>
        /\ mapping_requested
              <=> (ClaimedPick(ALIAS_BARCODE) = None \/ ClaimedPick(ALIAS_DESCRIPTION) = None)
        /\ (~mapping_requested /\ ClaimedPick(ALIAS_BRAND) = None)
              => \A k \in DOMAIN canonical_df : canonical_df[k].brand = <<>>
        /\ df_raw.columns = << <<"U","P","C">>, <<"B","r","a","n","d"," ","N","a","m","e">>, <<"P","r","o","d","u","c","t"," ","D","e","s","c","r","i","p","t","i","o","n">> >>
              => /\ ~mapping_requested
                 /\ picked = << <<"u","p","c">>, <<"b","r","a","n","d"," ","n","a","m","e">>, <<"p","r","o","d","u","c","t"," ","d","e","s","c","r","i","p","t","i","o","n">> >>
                 /\ canonical_df # <<>>

\* two description headers of which the first is taken, no brand header, and
\* records emitted without manual mapping
C7_Witness ==
    /\ IcRan
    /\ df_raw.columns = << <<" ","D","e","s","c","r","i","p","t","i","o","n">>, <<"U","P","C">>, <<"P","r","o","d","u","c","t"," ","D","e","s","c","r","i","p","t","i","o","n">> >>
    /\ ~mapping_requested
    /\ picked = << <<"u","p","c">>, None, <<"d","e","s","c","r","i","p","t","i","o","n">> >>
    /\ canonical_df # <<>>
    /\ canonical_df[1].brand = <<>>

(***************************************************************************)
(* C8: the canonical records forwarded by normalization have pairwise      *)
(* distinct, non-empty barcodes; 5 rows with 2 duplicate barcodes and 1    *)
(* blank barcode yield exactly 3 records.                                  *)
(***************************************************************************)
C8_UniqueNonEmpty ==
    (IcOk \/ QaOk) =>
        /\ \A k \in DOMAIN canonical_df : canonical_df[k].barcode # <<>>
        /\ \A k, m \in DOMAIN canonical_df :
              k # m => canonical_df[k].barcode # canonical_df[m].barcode
        /\ df_raw = ScenarioFile => Len(canonical_df) = 3

(***************************************************************************)
(* C9: over the whole batch, a record's size_flag is "No size found"       *)
(* exactly when extract_size_ml finds no volume in its description, "Too   *)
(* small" exactly when the size is below 750 ml, and None otherwise.       *)
(***************************************************************************)
ClaimedSizeFlag(desc) ==
    LET size == extract_size_ml(desc)
    IN  IF size.tag # "float" THEN "No size found"
        ELSE IF size.num < 750 * size.den THEN "Too small"
        ELSE NoFlag

C9_SizeFlag ==
    pc = "validated" =>
        \A k \in DOMAIN validate_df :
            validate_df[k].size_flag = ClaimedSizeFlag(validate_df[k].description)

(***************************************************************************)
(* C10: on an input error (empty upload; IC: barcode or description        *)
(* unmapped after the manual mapping; QA: upc, description or              *)
(* requirementname absent) normalization yields no record, the QA results  *)
(* are all empty, validation does not run and nothing is flagged.          *)
(***************************************************************************)
InputError ==
    /\ df_raw.file
    /\ \/ df_raw.rows = <<>>
       \/ df_raw.columns = <<>>
       \/ role = "IC" /\ (picked[1] = None \/ picked[3] = None)
       \/ role = "QA" /\ \E c \in { <<"u","p","c">>, <<"d","e","s","c","r","i","p","t","i","o","n">>, <<"r","e","q","u","i","r","e","m","e","n","t","n","a","m","e">> } :
                             \A i \in DOMAIN df_raw.columns : NormCols[i] # c

C10_HaltOnInputError ==
    (pc \in {"validation", "validated", "idle", "crashed"} /\ InputError) =>
        /\ canonical_df = <<>>
        /\ awarding_df = <<>> /\ audience_df = <<>> /\ summary = {}
        /\ validate_df = <<>> /\ flagged_df = <<>>
        /\ pc # "validated"

\* the mapping boxes were shown and description was left unmapped
C10_Witness ==
    /\ pc = "idle"
    /\ role = "IC"
    /\ mapping_requested
    /\ picked[1] # None
    /\ picked[3] = None
    /\ canonical_df = <<>>

====
